---- MODULE Spec2Model ----
(***************************************************************************)
(* Model of the Study-Buddy background service worker                      *)
(* (src/extension/background.js): the PomodoroTimer object, chrome.storage *)
(* as the persistence port, the chrome.alarms recurring alarm, and the     *)
(* message and alarm listeners.  Every `await` of a chrome API call is a   *)
(* yield point: the handler's next segment runs as a later step, and       *)
(* segments of other handlers may run in between.  A chrome API call takes *)
(* effect when it is issued (the browser serves the calls of one worker in *)
(* the order they were made); the continuation runs later.                 *)
(***************************************************************************)
EXTENDS Integers, Sequences, FiniteSets, TLC

VARIABLES
  timer,      \* the PomodoroTimer fields (background.js 4-8)
  settings,   \* this.settings (background.js 11-16)
  storage,    \* chrome.storage.local: timerState and timerSettings keys
  alarm,      \* chrome.alarms: the "pomodoroTimer" alarm and its queued events
  now,        \* Date.now(), in milliseconds
  tasks,      \* suspended handlers, in the order they issued the call they await
  loads,      \* storage reads issued at start-up and not yet resolved, in order
  last,       \* history: the step just taken, and the response it sent
  ghost,      \* history: running time accumulated since the phase was seeded
  left,       \* what the environment may still do: messages, restarts, clock steps,
              \* and how many handlers may be suspended at once
  blockedWebsites,  \* the list of sites to redirect (background.js 314-330)
  inbox       \* updateBlockedWebsites messages sent by the popup, not yet handled

vars == <<timer, settings, storage, alarm, now, tasks, loads, last, ghost, left,
          blockedWebsites, inbox>>

-----------------------------------------------------------------------------
(* Bounds of the model *)

\* the wall clock advances in steps of one minute, up to MaxSteps steps
MaxSteps == 3
\* messages the worker receives, and restarts of the worker
MaxMessages == 3
MaxRestart == 1
\* handlers that may be suspended at the same time
MaxTasks == 2
\* the same for the runs of SpecCycle, which follow a clock through its
\* phases: starts and natural completions only, one handler at a time
CycleSteps == 7
CycleMessages == 8
CycleTasks == 1
\* alarm events queued for the worker and not yet handled
MaxPendingAlarms == 1
\* failures of the browser's services (storage, notifications, speech) in
\* the runs of SpecFaults
MaxFaults == 1
\* what the user does in the popup's website list in the runs of SpecSites
MaxSiteOps == 3
\* the runs of SpecTicks: alarm events handled while a completion is
\* suspended, with up to TickTasks handlers suspended at once
TickSteps == 1
TickMessages == 3
TickTasks == 3
\* the runs of SpecLive: a clock that is started and left to run
LiveSteps == 2
LiveMessages == 2
LiveTasks == 2
\* the runs of SpecReplies: commands sent while a service may fail
ReplySteps == 1
ReplyMessages == 3
ReplyTasks == 2

(* Program constants *)

SecondsPerMinute == 60
MsPerSecond == 1000
\* timerStartTime = null; Date.now() is always positive, and the code only
\* tests the field for truthiness or subtracts it
NoTime == 0

StepMs == SecondsPerMinute * MsPerSecond

Max(a, b) == IF a >= b THEN a ELSE b

Fields == {"workTime", "shortBreak", "longBreak", "longBreakInterval"}

DefaultSettings ==
  [workTime |-> 25, shortBreak |-> 5, longBreak |-> 15, longBreakInterval |-> 4]

\* the payloads of updateSettings messages (partial settings objects): one
\* within the ranges the popup allows, one outside them
ShortPhases == [workTime |-> 1, shortBreak |-> 1]
SettingsInputs == { ShortPhases, [workTime |-> 0] }

\* the ranges the popup's settings form accepts (popup.js 412-421), for the
\* fields a settings object carries
InRange(ns) ==
  /\ "workTime" \in DOMAIN ns => ns.workTime >= 1 /\ ns.workTime <= 60
  /\ "shortBreak" \in DOMAIN ns => ns.shortBreak >= 1 /\ ns.shortBreak <= 30
  /\ "longBreak" \in DOMAIN ns => ns.longBreak >= 1 /\ ns.longBreak <= 60
  /\ "longBreakInterval" \in DOMAIN ns =>
        ns.longBreakInterval >= 2 /\ ns.longBreakInterval <= 10

-----------------------------------------------------------------------------
(* PomodoroTimer: pure parts *)

\* a * b in JavaScript for the settings values of the model
getPhaseTimeInMilliseconds(s, phase) ==
  CASE phase = "work" -> s.workTime * SecondsPerMinute * MsPerSecond
    [] phase = "break" -> s.shortBreak * SecondsPerMinute * MsPerSecond
    [] phase = "longBreak" -> s.longBreak * SecondsPerMinute * MsPerSecond
    [] OTHER -> s.workTime * SecondsPerMinute * MsPerSecond

\* the fields set by the constructor, before initializeTimer
ConstructedTimer ==
  [isTimerRunning |-> FALSE,
   currentPhase |-> "work",
   timeRemainingInMilliseconds |-> 0,
   completedPomodoros |-> 0,
   timerStartTime |-> NoTime]

initializeTimer(t, s) ==
  IF t.timeRemainingInMilliseconds = 0
    THEN [t EXCEPT !.timeRemainingInMilliseconds =
                      getPhaseTimeInMilliseconds(s, t.currentPhase)]
    ELSE t

\* the object saveTimerState writes under the key timerState
saveTimerState(t) ==
  [isRunning |-> t.isTimerRunning,
   currentPhase |-> t.currentPhase,
   completedPomodoros |-> t.completedPomodoros,
   startTime |-> t.timerStartTime,
   timeRemaining |-> t.timeRemainingInMilliseconds]

\* variant of the merge that replaces the settings by the new object
MergeSettingsReplaces(s, ns) == ns

\* { ...this.settings, ...newSettings }: the keys of both, the new values first
MergeSettings(s, ns) ==
  [f \in (DOMAIN s \cup DOMAIN ns) |-> IF f \in DOMAIN ns THEN ns[f] ELSE s[f]]

\* variant of start() without its guard: a running clock is anchored again
startSyncReanchors(t, n) ==
  [t EXCEPT !.isTimerRunning = TRUE, !.timerStartTime = n]

\* the synchronous part of start(): the guard and the two assignments
startSync(t, n) ==
  IF t.isTimerRunning
    THEN t
    ELSE [t EXCEPT !.isTimerRunning = TRUE, !.timerStartTime = n]

\* variant of stop() that does not freeze the remaining time
stopSyncKeepsBaseline(t, n) ==
  IF ~t.isTimerRunning
    THEN t
    ELSE [t EXCEPT !.isTimerRunning = FALSE, !.timerStartTime = NoTime]

\* variant of stop() that leaves the start timestamp in place
stopSyncKeepsStartTime(t, n) ==
  IF ~t.isTimerRunning
    THEN t
    ELSE [t EXCEPT !.timeRemainingInMilliseconds =
                      Max(0, @ - (n - t.timerStartTime)),
                   !.isTimerRunning = FALSE]

\* variant of stop() without its guard: a paused clock is frozen again
stopSyncUnguarded(t, n) ==
  [t EXCEPT !.timeRemainingInMilliseconds = Max(0, @ - (n - t.timerStartTime)),
            !.isTimerRunning = FALSE,
            !.timerStartTime = NoTime]

\* the synchronous part of stop(): the guard, the freeze of the remaining time
stopSync(t, n) ==
  IF ~t.isTimerRunning
    THEN t
    ELSE [t EXCEPT !.timeRemainingInMilliseconds =
                      Max(0, @ - (n - t.timerStartTime)),
                   !.isTimerRunning = FALSE,
                   !.timerStartTime = NoTime]

\* a % b === 0 in JavaScript, for a >= 0 and b >= 0: a % 0 is NaN
RemainderIsZero(a, b) == b # 0 /\ a % b = 0

\* reset(), after its stop(): the three assignments
resetSync(t, s) ==
  [t EXCEPT !.currentPhase = "work",
            !.timeRemainingInMilliseconds = getPhaseTimeInMilliseconds(s, "work"),
            !.completedPomodoros = 0]

\* variant of the transition that never takes a long break
nextPhaseNeverLong(phase, count, s) ==
  IF phase = "work" THEN "break" ELSE "work"

\* the phase complete() moves to, from the phase and the incremented count
nextPhase(phase, count, s) ==
  IF phase = "work"
    THEN IF RemainderIsZero(count, s.longBreakInterval) THEN "longBreak" ELSE "break"
    ELSE "work"

\* variant of complete() that counts every completed phase
completeSyncCountsBreaks(t, s) ==
  LET count == t.completedPomodoros + 1
      phase == nextPhase(t.currentPhase, t.completedPomodoros + 1, s)
  IN [t EXCEPT !.completedPomodoros = count,
               !.currentPhase = phase,
               !.timeRemainingInMilliseconds = getPhaseTimeInMilliseconds(s, phase)]

\* complete(), after its stop(): the phase transition and the fresh baseline
completeSync(t, s) ==
  LET count == IF t.currentPhase = "work"
                 THEN t.completedPomodoros + 1
                 ELSE t.completedPomodoros
      phase == nextPhase(t.currentPhase, count, s)
  IN [t EXCEPT !.completedPomodoros = count,
               !.currentPhase = phase,
               !.timeRemainingInMilliseconds = getPhaseTimeInMilliseconds(s, phase)]

\* variant of updateSettings() that reseeds the baseline of a running clock too
updateRemainingAlways(t, s) ==
  [t EXCEPT !.timeRemainingInMilliseconds =
               getPhaseTimeInMilliseconds(s, t.currentPhase)]

\* updateSettings(), after its storage write: the baseline of a paused clock
updateRemaining(t, s) ==
  IF ~t.isTimerRunning
    THEN [t EXCEPT !.timeRemainingInMilliseconds =
                      getPhaseTimeInMilliseconds(s, t.currentPhase)]
    ELSE t

\* loadTimerState(), once the read has resolved with the stored object r
loadTimerState(t, s, r) ==
  LET restored == [isTimerRunning |-> r.isRunning,
                   currentPhase |-> r.currentPhase,
                   completedPomodoros |-> r.completedPomodoros,
                   timerStartTime |-> r.startTime,
                   timeRemainingInMilliseconds |-> r.timeRemaining]
  IN IF ~restored.isTimerRunning /\ restored.timeRemainingInMilliseconds = 0
       THEN [restored EXCEPT !.timeRemainingInMilliseconds =
                                getPhaseTimeInMilliseconds(s, restored.currentPhase)]
       ELSE restored

\* variant of getState() without the clamp at 0
getStateUnclamped(t, s, n) ==
  [isRunning |-> t.isTimerRunning,
   currentPhase |-> t.currentPhase,
   timeRemaining |->
     IF t.isTimerRunning /\ t.timerStartTime # NoTime
       THEN t.timeRemainingInMilliseconds - (n - t.timerStartTime)
       ELSE t.timeRemainingInMilliseconds,
   totalTime |-> getPhaseTimeInMilliseconds(s, t.currentPhase),
   completedPomodoros |-> t.completedPomodoros,
   startTime |-> t.timerStartTime,
   settings |-> s]

\* variant of getState() that returns the baseline of a running clock
getStateStale(t, s, n) ==
  [isRunning |-> t.isTimerRunning,
   currentPhase |-> t.currentPhase,
   timeRemaining |-> t.timeRemainingInMilliseconds,
   totalTime |-> getPhaseTimeInMilliseconds(s, t.currentPhase),
   completedPomodoros |-> t.completedPomodoros,
   startTime |-> t.timerStartTime,
   settings |-> s]

\* getState(): the snapshot returned to the caller
getState(t, s, n) ==
  [isRunning |-> t.isTimerRunning,
   currentPhase |-> t.currentPhase,
   timeRemaining |->
     IF t.isTimerRunning /\ t.timerStartTime # NoTime
       THEN Max(0, t.timeRemainingInMilliseconds - (n - t.timerStartTime))
       ELSE t.timeRemainingInMilliseconds,
   totalTime |-> getPhaseTimeInMilliseconds(s, t.currentPhase),
   completedPomodoros |-> t.completedPomodoros,
   startTime |-> t.timerStartTime,
   settings |-> s]

-----------------------------------------------------------------------------
(* Bookkeeping *)

NoSnap == [none |-> TRUE]

\* tasks holds the suspended handlers in the order in which they issued the
\* chrome call they wait for; loads holds the storage reads of the start-up
\* in the order issued.  The browser answers the calls made to one API in
\* the order they were made; calls to different APIs are answered in any
\* order.
CanSpawn == Len(tasks) < left.tasks

AwaitsStorage(t) == t.pc \in {"save", "stopSave", "set"}

Resumable(i) ==
  /\ \A j \in 1..(i - 1) : AwaitsStorage(tasks[j]) # AwaitsStorage(tasks[i])
  /\ AwaitsStorage(tasks[i]) => loads = <<>>

Remove(i) == SubSeq(tasks, 1, i - 1) \o SubSeq(tasks, i + 1, Len(tasks))
Spawn(r) == Append(tasks, r)
Move(i, r) == Append(Remove(i), r)
Finish(i) == Remove(i)

Task(kind, pc) == [kind |-> kind, pc |-> pc]

Did(op, noop, snap) == [op |-> op, noop |-> noop, snap |-> snap]

\* a paused clock holding the full duration of its phase: the start of a phase
Seeded(t, s) ==
  /\ ~t.isTimerRunning
  /\ t.timeRemainingInMilliseconds = getPhaseTimeInMilliseconds(s, t.currentPhase)

\* History kept for the properties.  pure: since the clock was last seeded,
\* only start, stop, reads and ticks that change nothing have acted on it;
\* ran: the time it has spent running since.
GhostOther(g) ==
  IF timer' = timer /\ settings' = settings
    THEN g
    ELSE [g EXCEPT !.pure = Seeded(timer', settings'), !.ran = 0]

\* the stored record is a running clock whose phase has run out by time n
StoredPhaseElapsed(st, n) ==
  /\ st.hasTimerState
  /\ st.timerState.isRunning
  /\ n - st.timerState.startTime >= st.timerState.timeRemaining

\* firstRead, firstTick: the worker was started on such a record and has
\* since handled no getState (no tick), nor any other command.
GhostCommand(g) == [g EXCEPT !.firstRead = FALSE, !.firstTick = FALSE]

\* chrome.storage.local.set: while the storage area is down (st.down) the
\* call is rejected and nothing is written
StoreTimer(st, t) ==
  IF st.down
    THEN st
    ELSE [st EXCEPT !.hasTimerState = TRUE, !.timerState = saveTimerState(t)]
StoreSettings(st, s) ==
  IF st.down
    THEN st
    ELSE [st EXCEPT !.hasTimerSettings = TRUE, !.timerSettings = s]

\* the reads the constructor issues: loadSettings(), then loadTimerState()
SettingsLoad(st) ==
  [what |-> "settings", has |-> st.hasTimerSettings, value |-> st.timerSettings,
   onStartup |-> FALSE]
TimerLoad(st) ==
  [what |-> "timerState", has |-> st.hasTimerState, value |-> st.timerState,
   onStartup |-> FALSE]
\* the read of the top-level loadBlockedWebsites() call
BlockedWebsitesLoad(st) ==
  [what |-> "blockedWebsites", has |-> st.hasBlockedWebsites,
   value |-> st.blockedWebsites, onStartup |-> FALSE]
\* the read of the loadTimerState() the onStartup listener awaits; the
\* listener calls loadBlockedWebsites() when it resolves
StartupLoad(st) == [TimerLoad(st) EXCEPT !.onStartup = TRUE]

EmptyStorage ==
  [hasTimerState |-> FALSE,
   timerState |-> saveTimerState(ConstructedTimer),
   hasTimerSettings |-> FALSE,
   timerSettings |-> DefaultSettings,
   down |-> FALSE,
   hasBlockedWebsites |-> FALSE,
   blockedWebsites |-> {},
   extensionEnabled |-> TRUE]

\* the list the worker's script starts with, and the list loadBlockedWebsites
\* and onInstalled fall back to.  A list is modelled as the set of its
\* entries: the code only tests membership (includes, some, filter).
BuiltInBlockedWebsites ==
  {"instagram.com", "youtube.com", "facebook.com", "twitter.com", "tiktok.com",
   "reddit.com", "netflix.com", "hulu.com", "disneyplus.com", "amazon.com",
   "ebay.com", "etsy.com", "pinterest.com", "snapchat.com", "twitch.tv"}
defaultBlockedWebsites == {"instagram.com", "youtube.com"}

\* chrome.storage.local.set({blockedWebsites: ws})
StoreBlockedWebsites(st, ws) ==
  IF st.down
    THEN st
    ELSE [st EXCEPT !.hasBlockedWebsites = TRUE, !.blockedWebsites = ws]

\* storage after the onInstalled listener of a fresh install has written
\* extensionEnabled, the settings in memory and the default list
Installed ==
  StoreBlockedWebsites(StoreSettings(EmptyStorage, DefaultSettings),
                       defaultBlockedWebsites)

-----------------------------------------------------------------------------
(* Initial state: a fresh install.  The constructor has run, its two reads  *)
(* of the still empty storage have resolved (they change nothing), and the  *)
(* onInstalled listener has written the settings in memory to storage.      *)

Init ==
  /\ settings = DefaultSettings
  /\ timer = initializeTimer(ConstructedTimer, DefaultSettings)
  /\ storage = Installed
  /\ blockedWebsites = defaultBlockedWebsites
  /\ inbox = <<>>
  /\ alarm = [set |-> FALSE, pending |-> 0, down |-> FALSE]
  /\ now = StepMs
  /\ tasks = <<>>
  /\ loads = <<>>
  /\ last = Did("init", FALSE, NoSnap)
  /\ ghost = [pure |-> TRUE, ran |-> 0, firstRead |-> FALSE, firstTick |-> FALSE,
              cleared |-> FALSE]
  /\ left = [messages |-> MaxMessages, restart |-> MaxRestart, steps |-> MaxSteps,
             tasks |-> MaxTasks, faults |-> 0, sites |-> 0]

-----------------------------------------------------------------------------
(* The wall clock *)

Advance ==
  /\ left.steps > 0
  /\ left' = [left EXCEPT !.steps = @ - 1]
  /\ now' = now + StepMs
  /\ ghost' = IF ghost.pure /\ timer.isTimerRunning
                THEN [ghost EXCEPT !.ran = @ + StepMs]
                ELSE ghost
  /\ last' = Did("advance", FALSE, NoSnap)
  /\ UNCHANGED <<timer, settings, storage, alarm, tasks, loads>>
  /\ UNCHANGED <<blockedWebsites, inbox>>

-----------------------------------------------------------------------------
(* The service worker is terminated and started again: the constructor runs *)
(* on fresh fields, suspended handlers are gone, storage and alarms stay.   *)
(* The script sets the list of sites to the built-in one and ends with a    *)
(* call of loadBlockedWebsites().  On a browser start the onStartup         *)
(* listener runs next and issues a second loadTimerState().                 *)

Restart(browserStart) ==
  /\ left.restart > 0
  /\ left' = [left EXCEPT !.restart = @ - 1]
  /\ settings' = DefaultSettings
  /\ timer' = initializeTimer(ConstructedTimer, DefaultSettings)
  /\ tasks' = <<>>
  /\ blockedWebsites' = BuiltInBlockedWebsites
  /\ loads' = <<SettingsLoad(storage), TimerLoad(storage),
                BlockedWebsitesLoad(storage)>>
                \o (IF browserStart THEN <<StartupLoad(storage)>> ELSE <<>>)
  /\ last' = Did("restart", FALSE, NoSnap)
  /\ ghost' = [pure |-> TRUE, ran |-> 0,
               firstRead |-> StoredPhaseElapsed(storage, now),
               firstTick |-> StoredPhaseElapsed(storage, now),
               cleared |-> ghost.cleared]
  /\ UNCHANGED <<storage, alarm, now, inbox>>

\* loadSettings() resumes with the stored settings, or in its catch block
\* when the storage area is down as the read is served
LoadSettingsDone ==
  /\ UNCHANGED left
  /\ loads # <<>>
  /\ Head(loads).what = "settings"
  /\ settings' = IF Head(loads).has /\ ~storage.down
                   THEN MergeSettings(settings, Head(loads).value)
                   ELSE settings
  /\ loads' = Tail(loads)
  /\ last' = IF storage.down
               THEN \* the catch block: the error is logged
                    Did("loadSettingsFailed", TRUE, NoSnap)
               ELSE Did("loadSettings", ~Head(loads).has, NoSnap)
  /\ UNCHANGED <<timer, storage, alarm, now, tasks>>
  /\ ghost' = GhostOther(ghost)
  /\ UNCHANGED <<blockedWebsites, inbox>>

\* loadTimerState() resumes with the stored timer state, or in its catch
\* block
LoadTimerStateDone ==
  /\ UNCHANGED left
  /\ loads # <<>>
  /\ Head(loads).what = "timerState"
  /\ timer' = IF Head(loads).has /\ ~storage.down
                THEN loadTimerState(timer, settings, Head(loads).value)
                ELSE timer
  /\ loads' = IF Head(loads).onStartup
                THEN Append(Tail(loads), BlockedWebsitesLoad(storage))
                ELSE Tail(loads)
  /\ last' = IF storage.down
               THEN \* the catch block: the error is logged
                    Did("loadTimerStateFailed", TRUE, NoSnap)
               ELSE Did("loadTimerState", ~Head(loads).has, NoSnap)
  /\ UNCHANGED <<settings, storage, alarm, now, tasks>>
  /\ ghost' = GhostOther(ghost)
  /\ UNCHANGED <<blockedWebsites, inbox>>

\* loadBlockedWebsites() resumes with the stored list: a list with entries
\* replaces the one in memory; a missing or empty list is replaced, in
\* memory and in storage, by the default list
LoadBlockedWebsitesDone ==
  /\ UNCHANGED left
  /\ loads # <<>>
  /\ Head(loads).what = "blockedWebsites"
  /\ loads' = Tail(loads)
  /\ IF storage.down
       THEN \* the catch block: the error is logged
            /\ last' = Did("loadBlockedWebsitesFailed", TRUE, NoSnap)
            /\ UNCHANGED <<blockedWebsites, storage>>
       ELSE IF Head(loads).has /\ Head(loads).value # {}
              THEN /\ blockedWebsites' = Head(loads).value
                   /\ last' = Did("loadBlockedWebsites", FALSE, NoSnap)
                   /\ UNCHANGED storage
              ELSE /\ blockedWebsites' = defaultBlockedWebsites
                   /\ storage' = StoreBlockedWebsites(storage, defaultBlockedWebsites)
                   /\ last' = Did("loadBlockedWebsitesDefault", FALSE, NoSnap)
  /\ UNCHANGED <<timer, settings, alarm, now, tasks, ghost, inbox>>

-----------------------------------------------------------------------------
(* onMessage: start *)

StartMsg ==
  /\ left.messages > 0
  /\ left' = [left EXCEPT !.messages = @ - 1]
  /\ timer' = startSync(timer, now)
  /\ IF timer.isTimerRunning
       THEN \* start() returns at once; the response follows in the same turn
            /\ last' = Did("start", TRUE, getState(timer, settings, now))
            /\ UNCHANGED <<storage, tasks>>
       ELSE /\ CanSpawn
            /\ storage' = StoreTimer(storage, timer')
            /\ tasks' = Spawn(Task("start", "save"))
            /\ last' = Did("start", FALSE, NoSnap)
  /\ ghost' = GhostCommand(ghost)
  /\ UNCHANGED <<settings, alarm, now, loads>>
  /\ UNCHANGED <<blockedWebsites, inbox>>

StartResume(i) ==
  /\ UNCHANGED left
  /\ Resumable(i)
  /\ tasks[i].kind = "start"
  /\ \/ /\ tasks[i].pc = "save"
        /\ IF alarm.down
             THEN \* chrome.alarms.clear is rejected: start() ends with the error
                  /\ tasks' = Finish(i)
                  /\ last' = Did("startFailed", FALSE, NoSnap)
                  /\ UNCHANGED alarm
             ELSE /\ alarm' = [alarm EXCEPT !.set = FALSE]
                  /\ tasks' = Move(i, [tasks[i] EXCEPT !.pc = "clear"])
                  /\ last' = Did("startClear", FALSE, NoSnap)
     \/ /\ tasks[i].pc = "clear"
        /\ IF alarm.down
             THEN \* chrome.alarms.create is rejected
                  /\ tasks' = Finish(i)
                  /\ last' = Did("startFailed", FALSE, NoSnap)
                  /\ UNCHANGED alarm
             ELSE /\ alarm' = [alarm EXCEPT !.set = TRUE]
                  /\ tasks' = Move(i, [tasks[i] EXCEPT !.pc = "create"])
                  /\ last' = Did("startCreate", FALSE, NoSnap)
     \/ /\ tasks[i].pc = "create"
        /\ tasks' = Finish(i)
        /\ last' = Did("startAck", FALSE, getState(timer, settings, now))
        /\ UNCHANGED alarm
  /\ ghost' = ghost
  /\ UNCHANGED <<timer, settings, storage, now, loads>>
  /\ UNCHANGED <<blockedWebsites, inbox>>

-----------------------------------------------------------------------------
(* onMessage: stop *)

StopMsg ==
  /\ left.messages > 0
  /\ left' = [left EXCEPT !.messages = @ - 1]
  /\ timer' = stopSync(timer, now)
  /\ IF ~timer.isTimerRunning
       THEN /\ last' = Did("stop", TRUE, getState(timer, settings, now))
            /\ UNCHANGED <<storage, tasks>>
       ELSE /\ CanSpawn
            /\ storage' = StoreTimer(storage, timer')
            /\ tasks' = Spawn(Task("stop", "save"))
            /\ last' = Did("stop", FALSE, NoSnap)
  /\ ghost' = GhostCommand(ghost)
  /\ UNCHANGED <<settings, alarm, now, loads>>
  /\ UNCHANGED <<blockedWebsites, inbox>>

StopResume(i) ==
  /\ UNCHANGED left
  /\ Resumable(i)
  /\ tasks[i].kind = "stop"
  /\ \/ /\ tasks[i].pc = "save"
        /\ IF alarm.down
             THEN \* chrome.alarms.clear is rejected: stop() ends with the error
                  /\ tasks' = Finish(i)
                  /\ last' = Did("stopFailed", FALSE, NoSnap)
                  /\ UNCHANGED alarm
             ELSE /\ alarm' = [alarm EXCEPT !.set = FALSE]
                  /\ tasks' = Move(i, [tasks[i] EXCEPT !.pc = "clear"])
                  /\ last' = Did("stopClear", FALSE, NoSnap)
     \/ /\ tasks[i].pc = "clear"
        /\ tasks' = Finish(i)
        /\ last' = Did("stopAck", FALSE, getState(timer, settings, now))
        /\ UNCHANGED alarm
  /\ ghost' = ghost
  /\ UNCHANGED <<timer, settings, storage, now, loads>>
  /\ UNCHANGED <<blockedWebsites, inbox>>

-----------------------------------------------------------------------------
(* onMessage: reset *)

ResetMsg ==
  /\ left.messages > 0
  /\ left' = [left EXCEPT !.messages = @ - 1]
  /\ CanSpawn
  /\ IF timer.isTimerRunning
       THEN \* reset() is suspended in its stop(), on the write of the state
            /\ timer' = stopSync(timer, now)
            /\ tasks' = Spawn(Task("reset", "stopSave"))
       ELSE \* stop() returns at once and reset() goes on in the same turn
            /\ timer' = resetSync(timer, settings)
            /\ tasks' = Spawn(Task("reset", "save"))
  /\ storage' = StoreTimer(storage, timer')
  /\ last' = Did("reset", FALSE, NoSnap)
  /\ UNCHANGED <<settings, alarm, now, loads>>
  /\ ghost' = GhostCommand(GhostOther(ghost))
  /\ UNCHANGED <<blockedWebsites, inbox>>

ResetResume(i) ==
  /\ UNCHANGED left
  /\ Resumable(i)
  /\ tasks[i].kind = "reset"
  /\ \/ /\ tasks[i].pc = "stopSave"
        /\ IF alarm.down
             THEN \* chrome.alarms.clear is rejected: stop(), and with it
                  \* reset(), ends with the error
                  /\ tasks' = Finish(i)
                  /\ last' = Did("resetFailed", FALSE, NoSnap)
                  /\ UNCHANGED alarm
             ELSE /\ alarm' = [alarm EXCEPT !.set = FALSE]
                  /\ tasks' = Move(i, [tasks[i] EXCEPT !.pc = "stopClear"])
                  /\ last' = Did("resetClear", FALSE, NoSnap)
        /\ UNCHANGED <<timer, storage>>
     \/ /\ tasks[i].pc = "stopClear"
        /\ timer' = resetSync(timer, settings)
        /\ storage' = StoreTimer(storage, timer')
        /\ tasks' = Move(i, [tasks[i] EXCEPT !.pc = "save"])
        /\ last' = Did("resetSync", FALSE, NoSnap)
        /\ UNCHANGED alarm
     \/ /\ tasks[i].pc = "save"
        /\ tasks' = Finish(i)
        /\ last' = Did("resetAck", FALSE, getState(timer, settings, now))
        /\ UNCHANGED <<timer, storage, alarm>>
  /\ UNCHANGED <<settings, now, loads>>
  /\ ghost' = GhostOther(ghost)
  /\ UNCHANGED <<blockedWebsites, inbox>>

-----------------------------------------------------------------------------
(* onMessage: updateSettings *)

UpdateSettingsMsg(ns) ==
  /\ left.messages > 0
  /\ left' = [left EXCEPT !.messages = @ - 1]
  /\ CanSpawn
  /\ settings' = MergeSettings(settings, ns)
  /\ storage' = StoreSettings(storage, settings')
  /\ IF storage.down
       THEN \* the write is rejected outside any try block: updateSettings()
            \* ends at line 95 and the listener's then() is never run
            /\ tasks' = tasks
            /\ last' = Did("updateSettingsFailed", FALSE, [request |-> ns])
       ELSE /\ tasks' = Spawn([kind |-> "updateSettings", pc |-> "set", request |-> ns])
            /\ last' = Did("updateSettings", FALSE, [request |-> ns])
  /\ UNCHANGED <<timer, alarm, now, loads>>
  /\ ghost' = GhostCommand(GhostOther(ghost))
  /\ UNCHANGED <<blockedWebsites, inbox>>

UpdateSettingsResume(i) ==
  /\ UNCHANGED left
  /\ Resumable(i)
  /\ tasks[i].kind = "updateSettings"
  /\ timer' = updateRemaining(timer, settings)
  /\ tasks' = Finish(i)
  /\ last' = Did("updateSettingsAck", FALSE,
                 [request |-> tasks[i].request, success |-> TRUE, settings |-> settings])
  /\ UNCHANGED <<settings, storage, alarm, now, loads>>
  /\ ghost' = GhostOther(ghost)
  /\ UNCHANGED <<blockedWebsites, inbox>>

-----------------------------------------------------------------------------
(* onMessage: getState *)

GetStateMsg ==
  /\ left.messages > 0
  /\ left' = [left EXCEPT !.messages = @ - 1]
  /\ last' = Did("getState", FALSE, getState(timer, settings, now))
  /\ ghost' = [ghost EXCEPT !.firstRead = FALSE]
  /\ UNCHANGED <<timer, settings, storage, alarm, now, tasks, loads>>
  /\ UNCHANGED <<blockedWebsites, inbox>>

\* onMessage: an action the listener does not know (the default case)
UnknownActionMsg ==
  /\ left.messages > 0
  /\ left' = [left EXCEPT !.messages = @ - 1]
  /\ last' = Did("unknownAction", TRUE, [success |-> FALSE, error |-> "unknown action"])
  /\ UNCHANGED <<timer, settings, storage, alarm, now, tasks, loads, ghost>>
  /\ UNCHANGED <<blockedWebsites, inbox>>

-----------------------------------------------------------------------------
(* The recurring alarm and the onAlarm listener *)

\* the alarm comes due: an event is queued for the worker
AlarmFires ==
  /\ UNCHANGED left
  /\ alarm.set
  /\ alarm.pending < MaxPendingAlarms
  /\ alarm' = [alarm EXCEPT !.pending = @ + 1]
  /\ last' = Did("alarmFires", FALSE, NoSnap)
  /\ UNCHANGED <<timer, settings, storage, now, tasks, loads, ghost>>
  /\ UNCHANGED <<blockedWebsites, inbox>>

\* what the two sinks of showCompletionNotification() may do: the call of
\* chrome.notifications.create can succeed, fail later (its promise is
\* rejected) or throw at once (the API is not available); chrome.tts.speak
\* can succeed or throw
NotificationOutcomes == {"ok", "rejects", "throws"}
TtsOutcomes == {"ok", "throws"}

\* the names showCompletionNotification() gives to the phases
phaseNames ==
  [work |-> "work session", break |-> "short break", longBreak |-> "long break"]

\* the next phase the notification announces, computed before the transition
\* from the phase and the completed count of clock t
nextPhaseName(t, s) ==
  IF t.currentPhase = "work"
    THEN IF RemainderIsZero(t.completedPomodoros + 1, s.longBreakInterval)
           THEN "long break"
           ELSE "short break"
    ELSE "work session"

\* showCompletionNotification(): the promise of create() is not awaited, the
\* call of create() is outside the try block, the call of speak() inside it
showCompletionNotification(notification, tts) ==
  IF notification = "throws" THEN "throws" ELSE "returns"

\* the message complete() sends once its write of the state has resolved
timerCompleted(completedPhase, t) ==
  [completedPhase |-> completedPhase,
   nextPhase |-> t.currentPhase,
   completedPomodoros |-> t.completedPomodoros]

\* variant of the listener that takes the elapsed time off the baseline at
\* every tick of a running clock
OnAlarmReanchors ==
  /\ UNCHANGED left
  /\ alarm.pending > 0
  /\ UNCHANGED <<settings, now, loads>>
  /\ LET timerState == getState(timer, settings, now)
     IN IF timerState.isRunning /\ timerState.timeRemaining <= 0
          THEN \* complete() is suspended in its stop(), on the write of the state
               /\ CanSpawn
               /\ timer' = stopSync(timer, now)
               /\ storage' = StoreTimer(storage, timer')
               /\ tasks' = Spawn([kind |-> "complete", pc |-> "stopSave",
                                  from |-> timer.currentPhase,
                                  count |-> timer.completedPomodoros])
               /\ alarm' = [alarm EXCEPT !.pending = @ - 1]
               /\ last' = Did("tick", FALSE, NoSnap)
               /\ ghost' = GhostCommand(GhostOther(ghost))
          ELSE IF timerState.isRunning
            THEN /\ alarm' = [alarm EXCEPT !.pending = @ - 1]
                 /\ last' = Did("tick", TRUE, NoSnap)
                 /\ ghost' = GhostCommand(ghost)
                 /\ timer' = [timer EXCEPT
                                !.timeRemainingInMilliseconds = timerState.timeRemaining,
                                !.timerStartTime = now]
                 /\ UNCHANGED <<storage, tasks>>
            ELSE \* not running: the alarm is cleared
                 /\ alarm' = [alarm EXCEPT !.set = IF alarm.down THEN @ ELSE FALSE,
                                         !.pending = @ - 1]
                 /\ last' = Did("tick", TRUE, NoSnap)
                 /\ ghost' = GhostCommand(ghost)
                 /\ UNCHANGED <<timer, storage, tasks>>
  /\ UNCHANGED <<blockedWebsites, inbox>>

\* the listener handles a queued event (possibly late): the tick
OnAlarm ==
  /\ UNCHANGED left
  /\ alarm.pending > 0
  /\ UNCHANGED <<settings, now, loads>>
  /\ LET timerState == getState(timer, settings, now)
     IN IF timerState.isRunning /\ timerState.timeRemaining <= 0
          THEN \* complete() is suspended in its stop(), on the write of the state
               /\ CanSpawn
               /\ timer' = stopSync(timer, now)
               /\ storage' = StoreTimer(storage, timer')
               /\ tasks' = Spawn([kind |-> "complete", pc |-> "stopSave",
                                  from |-> timer.currentPhase,
                                  count |-> timer.completedPomodoros])
               /\ alarm' = [alarm EXCEPT !.pending = @ - 1]
               /\ last' = Did("tick", FALSE, NoSnap)
               /\ ghost' = GhostCommand(GhostOther(ghost))
          ELSE IF timerState.isRunning
            THEN /\ alarm' = [alarm EXCEPT !.pending = @ - 1]
                 /\ last' = Did("tick", TRUE, NoSnap)
                 /\ ghost' = GhostCommand(ghost)
                 /\ UNCHANGED <<timer, storage, tasks>>
            ELSE \* not running: the alarm is cleared
                 /\ alarm' = [alarm EXCEPT !.set = IF alarm.down THEN @ ELSE FALSE,
                                         !.pending = @ - 1]
                 /\ last' = Did("tick", TRUE, NoSnap)
                 /\ ghost' = GhostCommand(ghost)
                 /\ UNCHANGED <<timer, storage, tasks>>
  /\ UNCHANGED <<blockedWebsites, inbox>>

\* variant of complete() that stays in its last step: it sends the message
\* and may send it again
CompleteResumeResends(i) ==
  /\ Resumable(i)
  /\ tasks[i].kind = "complete"
  /\ \/ /\ tasks[i].pc = "stopSave"
        /\ IF alarm.down
             THEN \* chrome.alarms.clear is rejected: stop(), and with it
                  \* complete(), ends with the error
                  /\ tasks' = Finish(i)
                  /\ last' = Did("completeClearFailed", FALSE, NoSnap)
                  /\ UNCHANGED alarm
             ELSE /\ alarm' = [alarm EXCEPT !.set = FALSE]
                  /\ tasks' = Move(i, [tasks[i] EXCEPT !.pc = "stopClear"])
                  /\ last' = Did("completeClear", FALSE, NoSnap)
        /\ UNCHANGED <<timer, storage, left>>
     \/ /\ tasks[i].pc = "stopClear"
        /\ \E notification \in NotificationOutcomes, tts \in TtsOutcomes :
             /\ (notification # "ok" \/ tts # "ok") => left.faults > 0
             /\ left' = IF notification = "ok" /\ tts = "ok"
                          THEN left
                          ELSE [left EXCEPT !.faults = @ - 1]
             /\ IF showCompletionNotification(notification, tts) = "throws"
                  THEN \* complete() is left at line 191 with the exception
                       /\ tasks' = Finish(i)
                       /\ last' = Did("completeFailed", FALSE,
                                      [notification |-> notification, tts |-> tts])
                       /\ UNCHANGED <<timer, storage>>
                  ELSE /\ timer' = completeSync(timer, settings)
                       /\ storage' = StoreTimer(storage, timer')
                       /\ tasks' = Move(i, [kind |-> "complete", pc |-> "save",
                                             from |-> tasks[i].from,
                                             count |-> tasks[i].count,
                                             completedPhase |-> timer.currentPhase,
                                             announced |-> nextPhaseName(timer, settings)])
                       /\ last' = Did("completeSync", FALSE,
                                      [notification |-> notification, tts |-> tts,
                                       announced |-> nextPhaseName(timer, settings)])
        /\ UNCHANGED alarm
     \/ /\ tasks[i].pc = "save"
        /\ tasks' = tasks
        /\ last' = Did("completeDone", FALSE,
                       [from |-> tasks[i].from, count |-> tasks[i].count,
                        announced |-> tasks[i].announced,
                        event |-> timerCompleted(tasks[i].completedPhase, timer)])
        /\ UNCHANGED <<timer, storage, alarm, left>>
  /\ UNCHANGED <<settings, now, loads>>
  /\ ghost' = GhostOther(ghost)
  /\ UNCHANGED <<blockedWebsites, inbox>>

CompleteResume(i) ==
  /\ Resumable(i)
  /\ tasks[i].kind = "complete"
  /\ \/ /\ tasks[i].pc = "stopSave"
        /\ IF alarm.down
             THEN \* chrome.alarms.clear is rejected: stop(), and with it
                  \* complete(), ends with the error
                  /\ tasks' = Finish(i)
                  /\ last' = Did("completeClearFailed", FALSE, NoSnap)
                  /\ UNCHANGED alarm
             ELSE /\ alarm' = [alarm EXCEPT !.set = FALSE]
                  /\ tasks' = Move(i, [tasks[i] EXCEPT !.pc = "stopClear"])
                  /\ last' = Did("completeClear", FALSE, NoSnap)
        /\ UNCHANGED <<timer, storage, left>>
     \/ /\ tasks[i].pc = "stopClear"
        /\ \E notification \in NotificationOutcomes, tts \in TtsOutcomes :
             /\ (notification # "ok" \/ tts # "ok") => left.faults > 0
             /\ left' = IF notification = "ok" /\ tts = "ok"
                          THEN left
                          ELSE [left EXCEPT !.faults = @ - 1]
             /\ IF showCompletionNotification(notification, tts) = "throws"
                  THEN \* complete() is left at line 191 with the exception
                       /\ tasks' = Finish(i)
                       /\ last' = Did("completeFailed", FALSE,
                                      [notification |-> notification, tts |-> tts])
                       /\ UNCHANGED <<timer, storage>>
                  ELSE /\ timer' = completeSync(timer, settings)
                       /\ storage' = StoreTimer(storage, timer')
                       /\ tasks' = Move(i, [kind |-> "complete", pc |-> "save",
                                             from |-> tasks[i].from,
                                             count |-> tasks[i].count,
                                             completedPhase |-> timer.currentPhase,
                                             announced |-> nextPhaseName(timer, settings)])
                       /\ last' = Did("completeSync", FALSE,
                                      [notification |-> notification, tts |-> tts,
                                       announced |-> nextPhaseName(timer, settings)])
        /\ UNCHANGED alarm
     \/ /\ tasks[i].pc = "save"
        /\ tasks' = Finish(i)
        /\ last' = Did("completeDone", FALSE,
                       [from |-> tasks[i].from, count |-> tasks[i].count,
                        announced |-> tasks[i].announced,
                        event |-> timerCompleted(tasks[i].completedPhase, timer)])
        /\ UNCHANGED <<timer, storage, alarm, left>>
  /\ UNCHANGED <<settings, now, loads>>
  /\ ghost' = GhostOther(ghost)
  /\ UNCHANGED <<blockedWebsites, inbox>>

-----------------------------------------------------------------------------

Next ==
  \/ Advance
  \/ \E b \in BOOLEAN : Restart(b)
  \/ LoadSettingsDone
  \/ LoadTimerStateDone
  \/ LoadBlockedWebsitesDone
  \/ StartMsg
  \/ \E i \in 1..Len(tasks) : StartResume(i)
  \/ StopMsg
  \/ \E i \in 1..Len(tasks) : StopResume(i)
  \/ ResetMsg
  \/ \E i \in 1..Len(tasks) : ResetResume(i)
  \/ \E ns \in SettingsInputs : UpdateSettingsMsg(ns)
  \/ \E i \in 1..Len(tasks) : UpdateSettingsResume(i)
  \/ GetStateMsg
  \/ AlarmFires
  \/ OnAlarm
  \/ \E i \in 1..Len(tasks) : CompleteResume(i)

Spec == Init /\ [][Next]_vars

-----------------------------------------------------------------------------
(* A clock followed through its phases: after a fresh install the popup     *)
(* shortens the phases, and then only start commands, the clock and the     *)
(* alarm act, one handler at a time.                                        *)

InitCycle ==
  /\ settings = DefaultSettings
  /\ timer = initializeTimer(ConstructedTimer, DefaultSettings)
  /\ storage = Installed
  /\ blockedWebsites = defaultBlockedWebsites
  /\ inbox = <<>>
  /\ alarm = [set |-> FALSE, pending |-> 0, down |-> FALSE]
  /\ now = StepMs
  /\ tasks = <<>>
  /\ loads = <<>>
  /\ last = Did("init", FALSE, NoSnap)
  /\ ghost = [pure |-> TRUE, ran |-> 0, firstRead |-> FALSE, firstTick |-> FALSE,
              cleared |-> FALSE]
  /\ left = [messages |-> CycleMessages, restart |-> 0, steps |-> CycleSteps,
             tasks |-> CycleTasks, faults |-> 0, sites |-> 0]

NextCycle ==
  \/ Advance
  \/ StartMsg
  \/ \E i \in 1..Len(tasks) : StartResume(i)
  \/ UpdateSettingsMsg(ShortPhases)
  \/ \E i \in 1..Len(tasks) : UpdateSettingsResume(i)
  \/ AlarmFires
  \/ OnAlarm
  \/ \E i \in 1..Len(tasks) : CompleteResume(i)

SpecCycle == InitCycle /\ [][NextCycle]_vars

-----------------------------------------------------------------------------
(* The end of a phase under load: after a fresh install the popup shortens  *)
(* the phases and starts the clock; alarm events and start commands are     *)
(* handled while earlier handlers are suspended.                            *)

InitTicks ==
  /\ settings = DefaultSettings
  /\ timer = initializeTimer(ConstructedTimer, DefaultSettings)
  /\ storage = Installed
  /\ blockedWebsites = defaultBlockedWebsites
  /\ inbox = <<>>
  /\ alarm = [set |-> FALSE, pending |-> 0, down |-> FALSE]
  /\ now = StepMs
  /\ tasks = <<>>
  /\ loads = <<>>
  /\ last = Did("init", FALSE, NoSnap)
  /\ ghost = [pure |-> TRUE, ran |-> 0, firstRead |-> FALSE, firstTick |-> FALSE,
              cleared |-> FALSE]
  /\ left = [messages |-> TickMessages, restart |-> 0, steps |-> TickSteps,
             tasks |-> TickTasks, faults |-> 0, sites |-> 0]

NextTicks ==
  \/ Advance
  \/ StartMsg
  \/ \E i \in 1..Len(tasks) : StartResume(i)
  \/ UpdateSettingsMsg(ShortPhases)
  \/ \E i \in 1..Len(tasks) : UpdateSettingsResume(i)
  \/ AlarmFires
  \/ OnAlarm
  \/ \E i \in 1..Len(tasks) : CompleteResume(i)

SpecTicks == InitTicks /\ [][NextTicks]_vars

-----------------------------------------------------------------------------
(* A clock left to run: after a fresh install the popup shortens the phases *)
(* and starts the clock; no stop and no reset is issued.  The worker may be *)
(* terminated while no handler is suspended, and started again.  Time       *)
(* advances while the run has steps left, the alarm comes due while it is   *)
(* registered, queued events reach the listener, and every chrome call      *)
(* awaited by a handler or by the start-up is answered.                     *)

InitLive ==
  /\ settings = DefaultSettings
  /\ timer = initializeTimer(ConstructedTimer, DefaultSettings)
  /\ storage = Installed
  /\ blockedWebsites = defaultBlockedWebsites
  /\ inbox = <<>>
  /\ alarm = [set |-> FALSE, pending |-> 0, down |-> FALSE]
  /\ now = StepMs
  /\ tasks = <<>>
  /\ loads = <<>>
  /\ last = Did("init", FALSE, NoSnap)
  /\ ghost = [pure |-> TRUE, ran |-> 0, firstRead |-> FALSE, firstTick |-> FALSE,
              cleared |-> FALSE]
  /\ left = [messages |-> LiveMessages, restart |-> MaxRestart, steps |-> LiveSteps,
             tasks |-> LiveTasks, faults |-> 0, sites |-> 0]

NextLive ==
  \/ Advance
  \/ \E b \in BOOLEAN : tasks = <<>> /\ Restart(b)
  \/ LoadSettingsDone
  \/ LoadTimerStateDone
  \/ LoadBlockedWebsitesDone
  \/ StartMsg
  \/ \E i \in 1..Len(tasks) : StartResume(i)
  \/ UpdateSettingsMsg(ShortPhases)
  \/ \E i \in 1..Len(tasks) : UpdateSettingsResume(i)
  \/ AlarmFires
  \/ OnAlarm
  \/ \E i \in 1..Len(tasks) : CompleteResume(i)

FairLive ==
  /\ WF_vars(Advance)
  /\ WF_vars(AlarmFires)
  /\ WF_vars(OnAlarm)
  /\ WF_vars(LoadSettingsDone)
  /\ WF_vars(LoadTimerStateDone)
  /\ WF_vars(LoadBlockedWebsitesDone)
  /\ WF_vars(\E i \in 1..Len(tasks) : StartResume(i))
  /\ WF_vars(\E i \in 1..Len(tasks) : UpdateSettingsResume(i))
  /\ WF_vars(\E i \in 1..Len(tasks) : CompleteResume(i))

SpecLive == InitLive /\ [][NextLive]_vars /\ FairLive

-----------------------------------------------------------------------------
(* The worker when every updateSettings message carries values within the   *)
(* ranges of the popup's form.                                              *)

NextValid ==
  \/ Advance
  \/ \E b \in BOOLEAN : Restart(b)
  \/ LoadSettingsDone
  \/ LoadTimerStateDone
  \/ LoadBlockedWebsitesDone
  \/ StartMsg
  \/ \E i \in 1..Len(tasks) : StartResume(i)
  \/ StopMsg
  \/ \E i \in 1..Len(tasks) : StopResume(i)
  \/ ResetMsg
  \/ \E i \in 1..Len(tasks) : ResetResume(i)
  \/ \E ns \in {x \in SettingsInputs : InRange(x)} : UpdateSettingsMsg(ns)
  \/ \E i \in 1..Len(tasks) : UpdateSettingsResume(i)
  \/ GetStateMsg
  \/ AlarmFires
  \/ OnAlarm
  \/ \E i \in 1..Len(tasks) : CompleteResume(i)

SpecValid == Init /\ [][NextValid]_vars

-----------------------------------------------------------------------------
(* The worker when the browser's services may fail: the same handlers, with *)
(* up to MaxFaults failures.                                                *)

InitFaults ==
  /\ settings = DefaultSettings
  /\ timer = initializeTimer(ConstructedTimer, DefaultSettings)
  /\ storage = Installed
  /\ blockedWebsites = defaultBlockedWebsites
  /\ inbox = <<>>
  /\ alarm = [set |-> FALSE, pending |-> 0, down |-> FALSE]
  /\ now = StepMs
  /\ tasks = <<>>
  /\ loads = <<>>
  /\ last = Did("init", FALSE, NoSnap)
  /\ ghost = [pure |-> TRUE, ran |-> 0, firstRead |-> FALSE, firstTick |-> FALSE,
              cleared |-> FALSE]
  /\ left = [messages |-> MaxMessages, restart |-> MaxRestart, steps |-> MaxSteps,
             tasks |-> MaxTasks, faults |-> MaxFaults, sites |-> 0]

\* the storage area starts to reject the calls made to it, and recovers
StorageFails ==
  /\ left.faults > 0
  /\ ~storage.down
  /\ left' = [left EXCEPT !.faults = @ - 1]
  /\ storage' = [storage EXCEPT !.down = TRUE]
  /\ last' = Did("storageFails", FALSE, NoSnap)
  /\ UNCHANGED <<timer, settings, alarm, now, tasks, loads, ghost>>
  /\ UNCHANGED <<blockedWebsites, inbox>>

StorageRecovers ==
  /\ storage.down
  /\ storage' = [storage EXCEPT !.down = FALSE]
  /\ last' = Did("storageRecovers", FALSE, NoSnap)
  /\ UNCHANGED <<timer, settings, alarm, now, tasks, loads, ghost, left>>
  /\ UNCHANGED <<blockedWebsites, inbox>>

NextFaults ==
  \/ NextValid
  \/ StorageFails
  \/ StorageRecovers

SpecFaults == InitFaults /\ [][NextFaults]_vars

-----------------------------------------------------------------------------
(* Commands and their responses: the popup sends commands, among them       *)
(* actions the worker does not know, while the storage area or the alarm    *)
(* service may reject the calls made to it.                                 *)

\* the alarm service starts, and stops, rejecting the calls made to it
AlarmsFail ==
  /\ left.faults > 0
  /\ ~alarm.down
  /\ left' = [left EXCEPT !.faults = @ - 1]
  /\ alarm' = [alarm EXCEPT !.down = TRUE]
  /\ last' = Did("alarmsFail", FALSE, NoSnap)
  /\ UNCHANGED <<timer, settings, storage, now, tasks, loads, ghost>>
  /\ UNCHANGED <<blockedWebsites, inbox>>

AlarmsRecover ==
  /\ alarm.down
  /\ alarm' = [alarm EXCEPT !.down = FALSE]
  /\ last' = Did("alarmsRecover", FALSE, NoSnap)
  /\ UNCHANGED <<timer, settings, storage, now, tasks, loads, ghost, left>>
  /\ UNCHANGED <<blockedWebsites, inbox>>

InitReplies ==
  /\ settings = DefaultSettings
  /\ timer = initializeTimer(ConstructedTimer, DefaultSettings)
  /\ storage = Installed
  /\ blockedWebsites = defaultBlockedWebsites
  /\ inbox = <<>>
  /\ alarm = [set |-> FALSE, pending |-> 0, down |-> FALSE]
  /\ now = StepMs
  /\ tasks = <<>>
  /\ loads = <<>>
  /\ last = Did("init", FALSE, NoSnap)
  /\ ghost = [pure |-> TRUE, ran |-> 0, firstRead |-> FALSE, firstTick |-> FALSE,
              cleared |-> FALSE]
  /\ left = [messages |-> ReplyMessages, restart |-> 0, steps |-> ReplySteps,
             tasks |-> ReplyTasks, faults |-> MaxFaults, sites |-> 0]

NextReplies ==
  \/ Advance
  \/ StartMsg
  \/ \E i \in 1..Len(tasks) : StartResume(i)
  \/ StopMsg
  \/ \E i \in 1..Len(tasks) : StopResume(i)
  \/ ResetMsg
  \/ \E i \in 1..Len(tasks) : ResetResume(i)
  \/ UpdateSettingsMsg(ShortPhases)
  \/ \E i \in 1..Len(tasks) : UpdateSettingsResume(i)
  \/ GetStateMsg
  \/ UnknownActionMsg
  \/ StorageFails
  \/ StorageRecovers
  \/ AlarmsFail
  \/ AlarmsRecover

SpecReplies == InitReplies /\ [][NextReplies]_vars

-----------------------------------------------------------------------------
(* The list of blocked websites: the popup's list editor, the extension     *)
(* switch, the worker's updateBlockedWebsites handler and its tab listener. *)

\* what the user types into the popup, as cleanWebsiteInput returns it
SiteInputs == {"instagram.com", "example.org"}

\* the hosts of the pages the user opens
Hostnames ==
  {"instagram.com", "www.instagram.com", "www.example.org", "www.facebook.com"}

\* hostname.includes(site): over Hostnames and the sites above, a site is
\* part of a host name exactly when the host is the site or "www." before it
includes(hostname, site) ==
  \E prefix \in {"", "www."} : hostname = prefix \o site

shouldRedirectUrl(websites, hostname) ==
  \E site \in websites : includes(hostname, site)

\* result.blockedWebsites || [] in the popup
StoredWebsites(st) == IF st.hasBlockedWebsites THEN st.blockedWebsites ELSE {}

\* the popup's handlers read and write storage and then notify the worker;
\* a rejected storage call takes them to their catch block
addWebsite(site) ==
  /\ left.sites > 0
  /\ left' = [left EXCEPT !.sites = @ - 1]
  /\ IF storage.down
       THEN /\ last' = Did("addWebsiteFailed", TRUE, NoSnap)
            /\ UNCHANGED <<storage, inbox>>
       ELSE IF site \in StoredWebsites(storage)
              THEN \* "this website is already in your blocked list!"
                   /\ last' = Did("addWebsite", TRUE, [site |-> site])
                   /\ UNCHANGED <<storage, inbox>>
              ELSE /\ storage' = StoreBlockedWebsites(storage,
                                     StoredWebsites(storage) \cup {site})
                   /\ inbox' = Append(inbox, StoredWebsites(storage) \cup {site})
                   /\ last' = Did("addWebsite", FALSE, [site |-> site])
  /\ ghost' = [ghost EXCEPT !.cleared = FALSE]
  /\ UNCHANGED <<timer, settings, alarm, now, tasks, loads, blockedWebsites>>

removeWebsite(site) ==
  /\ left.sites > 0
  /\ left' = [left EXCEPT !.sites = @ - 1]
  /\ site \in StoredWebsites(storage)
  /\ IF storage.down
       THEN /\ last' = Did("removeWebsiteFailed", TRUE, NoSnap)
            /\ UNCHANGED <<storage, inbox>>
       ELSE /\ storage' = StoreBlockedWebsites(storage,
                              StoredWebsites(storage) \ {site})
            /\ inbox' = Append(inbox, StoredWebsites(storage) \ {site})
            /\ last' = Did("removeWebsite", FALSE, [site |-> site])
  /\ UNCHANGED <<timer, settings, alarm, now, tasks, loads, blockedWebsites, ghost>>

clearAllWebsites ==
  /\ left.sites > 0
  /\ left' = [left EXCEPT !.sites = @ - 1]
  /\ IF storage.down
       THEN /\ last' = Did("clearAllWebsitesFailed", TRUE, NoSnap)
            /\ UNCHANGED <<storage, inbox, ghost>>
       ELSE /\ storage' = StoreBlockedWebsites(storage, {})
            /\ inbox' = Append(inbox, {})
            /\ last' = Did("clearAllWebsites", FALSE, NoSnap)
            /\ ghost' = [ghost EXCEPT !.cleared = TRUE]
  /\ UNCHANGED <<timer, settings, alarm, now, tasks, loads, blockedWebsites>>

\* the extension switch of the popup
ToggleExtension ==
  /\ left.sites > 0
  /\ left' = [left EXCEPT !.sites = @ - 1]
  /\ storage' = IF storage.down
                  THEN storage
                  ELSE [storage EXCEPT !.extensionEnabled = ~@]
  /\ last' = Did("toggleExtension", storage.down, NoSnap)
  /\ UNCHANGED <<timer, settings, alarm, now, tasks, loads, blockedWebsites,
                 inbox, ghost>>

\* onMessage: updateBlockedWebsites
UpdateBlockedWebsitesMsg ==
  /\ inbox # <<>>
  /\ blockedWebsites' = Head(inbox)
  /\ inbox' = Tail(inbox)
  /\ last' = Did("updateBlockedWebsites", FALSE, [success |-> TRUE])
  /\ UNCHANGED <<timer, settings, storage, alarm, now, tasks, loads, ghost, left>>

\* tabs.onUpdated for a page that starts loading: the listener reads
\* extensionEnabled and redirects the tab when a blocked site is part of the
\* host name
TabUpdated(hostname) ==
  /\ LET redirected == /\ ~storage.down
                        /\ storage.extensionEnabled
                        /\ shouldRedirectUrl(blockedWebsites, hostname)
     IN last' = Did("tabUpdated", ~redirected,
                    [hostname |-> hostname, redirected |-> redirected])
  /\ UNCHANGED <<timer, settings, storage, alarm, now, tasks, loads, ghost, left,
                 blockedWebsites, inbox>>

InitSites ==
  /\ settings = DefaultSettings
  /\ timer = initializeTimer(ConstructedTimer, DefaultSettings)
  /\ storage = Installed
  /\ blockedWebsites = defaultBlockedWebsites
  /\ inbox = <<>>
  /\ alarm = [set |-> FALSE, pending |-> 0, down |-> FALSE]
  /\ now = StepMs
  /\ tasks = <<>>
  /\ loads = <<>>
  /\ last = Did("init", FALSE, NoSnap)
  /\ ghost = [pure |-> TRUE, ran |-> 0, firstRead |-> FALSE, firstTick |-> FALSE,
              cleared |-> FALSE]
  /\ left = [messages |-> 0, restart |-> MaxRestart, steps |-> 0, tasks |-> 0,
             faults |-> 0, sites |-> MaxSiteOps]

NextSites ==
  \/ \E site \in SiteInputs : addWebsite(site)
  \/ \E site \in BuiltInBlockedWebsites \cup SiteInputs : removeWebsite(site)
  \/ clearAllWebsites
  \/ ToggleExtension
  \/ UpdateBlockedWebsitesMsg
  \/ \E hostname \in Hostnames : TabUpdated(hostname)
  \/ \E b \in BOOLEAN : Restart(b)
  \/ LoadSettingsDone
  \/ LoadTimerStateDone
  \/ LoadBlockedWebsitesDone

SpecSites == InitSites /\ [][NextSites]_vars

-----------------------------------------------------------------------------
(* Properties *)

\* C1: within one phase, under any alternation of start and stop with a
\* non-decreasing clock, the remaining time getState reports is the full
\* duration of the phase minus the total time the clock has spent running,
\* clamped at 0; time spent paused is not subtracted.
C1_RemainingIsDurationMinusRunTime ==
  ghost.pure =>
    getState(timer, settings, now).timeRemaining =
      Max(0, getPhaseTimeInMilliseconds(settings, timer.currentPhase) - ghost.ran)

\* the clock ran one step, was paused for one step and has run one more step
\* since it was started again: it resumed from the frozen remaining time
C1_ResumedAfterPause ==
  /\ ghost.pure
  /\ timer.isTimerRunning
  /\ ghost.ran = 2 * StepMs
  /\ now - timer.timerStartTime = StepMs
  /\ now = 4 * StepMs
  /\ timer.timeRemainingInMilliseconds =
       getPhaseTimeInMilliseconds(settings, timer.currentPhase) - StepMs

\* C2: for settings within the allowed ranges and any sequence of start and
\* stop, the remaining time reported at any instant is at least 0 and at most
\* the full duration of the current phase.
C2_RemainingWithinPhase ==
  ghost.pure /\ InRange(settings) =>
    /\ getState(timer, settings, now).timeRemaining >= 0
    /\ getState(timer, settings, now).timeRemaining
         <= getPhaseTimeInMilliseconds(settings, timer.currentPhase)

\* the clock has been running for longer than its phase lasts
C2_RanPastTheEnd ==
  /\ ghost.pure
  /\ InRange(settings)
  /\ timer.isTimerRunning
  /\ ghost.ran > getPhaseTimeInMilliseconds(settings, timer.currentPhase)
  /\ now - timer.timerStartTime > timer.timeRemainingInMilliseconds

\* C3: completing a Work phase increments the completed count and leads to
\* LongBreak exactly when the incremented count is a positive multiple of
\* longBreakInterval, to ShortBreak otherwise; completing a break leads to
\* Work.  From a fresh clock the completions therefore run Work, ShortBreak,
\* ... and the clock is in LongBreak only at a positive multiple of the
\* interval (count 4 for interval 4), in ShortBreak only at the other counts.
C3_PhaseTransitions ==
  /\ [][last'.op = "completeSync" =>
          IF timer.currentPhase = "work"
            THEN /\ timer'.completedPomodoros = timer.completedPomodoros + 1
                 /\ timer'.currentPhase =
                      IF /\ timer'.completedPomodoros > 0
                         /\ timer'.completedPomodoros % settings.longBreakInterval = 0
                        THEN "longBreak"
                        ELSE "break"
            ELSE /\ timer'.completedPomodoros = timer.completedPomodoros
                 /\ timer'.currentPhase = "work"]_vars
  /\ [](/\ timer.currentPhase = "longBreak" =>
             /\ timer.completedPomodoros > 0
             /\ timer.completedPomodoros % settings.longBreakInterval = 0
        /\ timer.currentPhase = "break" =>
             timer.completedPomodoros % settings.longBreakInterval # 0)

\* the fourth Work phase has been completed with interval 4
C3_FourthWorkCompleted ==
  /\ settings.longBreakInterval = 4
  /\ last.op = "completeSync"
  /\ timer.currentPhase = "longBreak"
  /\ timer.completedPomodoros = 4

\* C4: a tick that arrives while the clock is running with remaining time 0
\* advances the phase exactly once and leaves the clock not running; a tick on
\* the clock it leaves changes nothing in the clock state.
C4_TickCompletesOnce ==
  /\ [](last.op = "completeDone" /\ InRange(settings) =>
          /\ ~timer.isTimerRunning
          /\ timer.currentPhase # last.snap.from
          /\ (last.snap.from # "work" => timer.currentPhase = "work")
          /\ timer.completedPomodoros =
               last.snap.count + (IF last.snap.from = "work" THEN 1 ELSE 0))
  /\ [][last'.op = "tick" /\ ~timer.isTimerRunning => timer' = timer]_vars

\* the completion of a Work phase has finished and the clock is running
C4_RunningAfterTick ==
  /\ last.op = "completeDone"
  /\ InRange(settings)
  /\ last.snap.from = "work"
  /\ timer.currentPhase = "break"
  /\ timer.isTimerRunning

\* C5: a completion does not restart the clock: when it has made the
\* transition, and when it has finished, the clock is not running, its start
\* timestamp is cleared and its baseline is the full duration of the new
\* phase (the settings being in range and no change of them under way).
C5_CompletionLeavesPaused ==
  /\ last.op \in {"completeSync", "completeDone"}
  /\ InRange(settings)
  /\ \A i \in 1..Len(tasks) : tasks[i].kind # "updateSettings"
  =>
    /\ ~timer.isTimerRunning
    /\ timer.timerStartTime = NoTime
    /\ timer.timeRemainingInMilliseconds =
         getPhaseTimeInMilliseconds(settings, timer.currentPhase)

\* the new phase begins running, on a start timestamp taken in the old phase
C5_NewPhaseBeginsRunning ==
  /\ last.op = "completeSync"
  /\ InRange(settings)
  /\ timer.isTimerRunning
  /\ timer.timerStartTime # NoTime
  /\ timer.timerStartTime < now
  /\ timer.timeRemainingInMilliseconds =
       getPhaseTimeInMilliseconds(settings, timer.currentPhase)

\* C6: when reset is acknowledged the clock is in Work, not running, without
\* start timestamp, with completed count 0 and the full Work duration as its
\* baseline; no step of reset changes the settings.
C6_ResetAcknowledged ==
  /\ [](last.op = "resetAck" =>
          /\ timer.currentPhase = "work"
          /\ ~timer.isTimerRunning
          /\ timer.timerStartTime = NoTime
          /\ timer.completedPomodoros = 0
          /\ timer.timeRemainingInMilliseconds =
               settings.workTime * SecondsPerMinute * MsPerSecond)
  /\ [][last'.op \in {"reset", "resetClear", "resetSync", "resetAck"} =>
          settings' = settings]_vars

\* reset is acknowledged on a running clock
C6_RunningAtResetAck ==
  /\ last.op = "resetAck"
  /\ last.snap.isRunning
  /\ timer.isTimerRunning
  /\ timer.timerStartTime # NoTime

\* C7: stop on a paused clock changes no field of the clock in memory and
\* nothing in storage: the frozen baseline is not reduced a second time.
C7_StopOnPausedChangesNothing ==
  [][last'.op = "stop" /\ ~timer.isTimerRunning =>
       /\ timer' = timer
       /\ storage' = storage
       /\ settings' = settings]_vars

\* a stop was answered on a clock that an earlier stop had frozen in mid-phase
C7_StoppedTwice ==
  /\ last.op = "stop"
  /\ last.noop
  /\ ghost.pure
  /\ ghost.ran > 0
  /\ ~timer.isTimerRunning
  /\ timer.timeRemainingInMilliseconds > 0
  /\ timer.timeRemainingInMilliseconds <
       getPhaseTimeInMilliseconds(settings, timer.currentPhase)

\* C8: start on a running clock changes nothing (the start timestamp is not
\* anchored again); start on a paused clock sets the running flag and the
\* start timestamp to the current time and leaves phase, baseline, completed
\* count and settings as they were.
C8_StartEffect ==
  [][last'.op = "start" =>
       /\ settings' = settings
       /\ IF timer.isTimerRunning
            THEN timer' = timer
            ELSE /\ timer'.isTimerRunning
                 /\ timer'.timerStartTime = now
                 /\ timer'.currentPhase = timer.currentPhase
                 /\ timer'.timeRemainingInMilliseconds =
                      timer.timeRemainingInMilliseconds
                 /\ timer'.completedPomodoros = timer.completedPomodoros]_vars

\* a start was answered on a clock that had been running for some time
C8_StartedWhileRunning ==
  /\ last.op = "start"
  /\ last.noop
  /\ timer.isTimerRunning
  /\ timer.timerStartTime < now

\* C9: getState changes no field of the clock, of the settings or of storage,
\* and the remaining time it returns is the baseline minus the time since the
\* start timestamp, clamped at 0, when running, and the baseline when paused.
C9_GetStateReadOnly ==
  [][last'.op = "getState" =>
       /\ timer' = timer
       /\ settings' = settings
       /\ storage' = storage
       /\ last'.snap.timeRemaining =
            IF timer.isTimerRunning
              THEN Max(0, timer.timeRemainingInMilliseconds
                            - (now - timer.timerStartTime))
              ELSE timer.timeRemainingInMilliseconds]_vars

\* getState answered in the middle of a running phase
C9_ReadWhileRunning ==
  /\ last.op = "getState"
  /\ last.snap.isRunning
  /\ last.snap.timeRemaining > 0
  /\ last.snap.timeRemaining < timer.timeRemainingInMilliseconds

\* C10: an updateSettings command carrying a value outside the allowed ranges
\* changes neither the clock nor the settings, in memory and in storage, and
\* is answered with an error.
C10_OutOfRangeRejected ==
  /\ [][last'.op \in {"updateSettings", "updateSettingsAck"}
          /\ ~InRange(last'.snap.request) =>
            /\ timer' = timer
            /\ settings' = settings
            /\ storage' = storage]_vars
  /\ [](last.op = "updateSettingsAck" /\ ~InRange(last.snap.request) =>
          ~last.snap.success)

\* a work time of 0 minutes has been accepted: it is in memory and in
\* storage, the paused clock holds 0 ms, and the command was answered as a
\* success
C10_ZeroAccepted ==
  /\ last.op = "updateSettingsAck"
  /\ ~InRange(last.snap.request)
  /\ last.snap.success
  /\ settings.workTime = 0
  /\ storage.timerSettings.workTime = 0
  /\ timer.timeRemainingInMilliseconds = 0

\* C11: updateSettings merges the new values over the settings; when it acts
\* on a paused clock it sets the baseline to the full duration of the current
\* phase under the merged settings and changes nothing else; when it acts on
\* a running clock it leaves the clock (baseline, start timestamp and all
\* other fields) unchanged.
C11_UpdateSettingsEffect ==
  /\ [][last'.op = "updateSettings" =>
          /\ timer' = timer
          /\ \A f \in Fields :
               settings'[f] = IF f \in DOMAIN last'.snap.request
                                THEN last'.snap.request[f]
                                ELSE settings[f]]_vars
  /\ [][last'.op = "updateSettingsAck" =>
          /\ settings' = settings
          /\ IF timer.isTimerRunning
               THEN timer' = timer
               ELSE /\ timer'.timeRemainingInMilliseconds =
                         (CASE timer.currentPhase = "work" -> settings.workTime
                            [] timer.currentPhase = "break" -> settings.shortBreak
                            [] timer.currentPhase = "longBreak" -> settings.longBreak)
                           * SecondsPerMinute * MsPerSecond
                    /\ timer'.isTimerRunning = timer.isTimerRunning
                    /\ timer'.timerStartTime = timer.timerStartTime
                    /\ timer'.currentPhase = timer.currentPhase
                    /\ timer'.completedPomodoros = timer.completedPomodoros]_vars

\* updateSettings has acted on a running clock: the phase in flight keeps its
\* length of 25 minutes although the work time is now 1 minute
C11_RunningKeepsLength ==
  /\ last.op = "updateSettingsAck"
  /\ timer.isTimerRunning
  /\ timer.currentPhase = "work"
  /\ settings.workTime = 1
  /\ timer.timeRemainingInMilliseconds = 25 * SecondsPerMinute * MsPerSecond
  /\ timer.timerStartTime < now

\* C12: saving the clock and loading it again reproduces the clock field for
\* field, in every reachable state, also when the clock is paused with
\* baseline 0.
C12_SaveLoadRoundTrip ==
  loadTimerState(ConstructedTimer, settings, saveTimerState(timer)) = timer

\* a clock stopped at the end of its phase was saved with baseline 0 and not
\* running; the worker started again and its load has produced a clock that
\* holds the full duration of the phase
C12_ZeroLoadedAsFull ==
  /\ last.op = "loadTimerState"
  /\ InRange(settings)
  /\ storage.hasTimerState
  /\ ~storage.timerState.isRunning
  /\ storage.timerState.timeRemaining = 0
  /\ ~timer.isTimerRunning
  /\ timer.currentPhase = storage.timerState.currentPhase
  /\ timer.timeRemainingInMilliseconds =
       getPhaseTimeInMilliseconds(settings, timer.currentPhase)
  /\ timer.timeRemainingInMilliseconds > 0

\* C13: whenever a start, stop, reset or updateSettings has been acknowledged
\* or a phase completion has finished, and no other handler or start-up read
\* is under way, the stored timer state equals the clock in memory in every
\* field (with nothing stored yet, the clock is the one a reload constructs).
C13_AcknowledgedIsPersisted ==
  ( /\ \/ last.op \in {"startAck", "stopAck", "resetAck", "updateSettingsAck",
                       "completeDone"}
       \/ last.op \in {"start", "stop"} /\ last.noop
    /\ tasks = <<>>
    /\ loads = <<>> )
  => IF storage.hasTimerState
       THEN storage.timerState = saveTimerState(timer)
       ELSE \* nothing stored: a reload leaves the constructed clock
            timer = initializeTimer(ConstructedTimer, DefaultSettings)

\* an updateSettings is acknowledged while the stored record still holds the
\* baseline of the old settings
C13_StaleRecordAtAck ==
  /\ last.op = "updateSettingsAck"
  /\ tasks = <<>>
  /\ loads = <<>>
  /\ storage.hasTimerState
  /\ ~timer.isTimerRunning
  /\ storage.timerState.timeRemaining = 25 * SecondsPerMinute * MsPerSecond
  /\ timer.timeRemainingInMilliseconds = 1 * SecondsPerMinute * MsPerSecond

\* C14: after a start of the worker no command and no tick is handled while
\* a read of a stored timer state or of stored settings is still outstanding.
C14_LoadedBeforeHandling ==
  last.op \in {"start", "stop", "reset", "updateSettings", "getState", "tick"}
    => \A i \in 1..Len(loads) : ~loads[i].has

\* a start was handled on the constructed clock and stored; the read issued
\* by the constructor then resolved and put the older, paused record over it
C14_LoadOverwroteStart ==
  /\ last.op = "loadTimerState"
  /\ ~last.noop
  /\ storage.hasTimerState
  /\ storage.timerState.isRunning
  /\ ~timer.isTimerRunning
  /\ \E i \in 1..Len(tasks) : tasks[i].kind = "start"

\* C15: when the worker is started on a stored running clock whose phase has
\* run out, the first getState it handles reports a running clock with no
\* time left, and the first tick it handles starts the completion of the
\* stored phase and leaves the clock paused.
C15_ElapsedWhileDown ==
  [][ /\ (ghost.firstRead /\ last'.op = "getState") =>
           /\ last'.snap.isRunning
           /\ last'.snap.timeRemaining = 0
      /\ (ghost.firstTick /\ last'.op = "tick") =>
           /\ ~last'.noop
           /\ ~timer'.isTimerRunning
           /\ \E i \in 1..Len(tasks') :
                /\ tasks'[i].kind = "complete"
                /\ tasks'[i].from = storage.timerState.currentPhase ]_vars

\* the stored record has been loaded before the first getState: no time left
C15_ReadAfterLoad ==
  /\ last.op = "getState"
  /\ ghost.firstTick
  /\ ~ghost.firstRead
  /\ loads = <<>>
  /\ last.snap.isRunning
  /\ last.snap.timeRemaining = 0
  /\ last.snap.startTime < now

\* C16: in every reachable state the clock in memory is running exactly when
\* its start timestamp is set, and so is the stored record.
C16_RunningIffStartTime ==
  /\ timer.isTimerRunning <=> timer.timerStartTime # NoTime
  /\ storage.hasTimerState =>
       (storage.timerState.isRunning <=> storage.timerState.startTime # NoTime)

\* a clock that ran was stopped and the stop acknowledged after a restart
\* of the worker: no timestamp is left, in memory or stored
C16_StoppedAfterRestart ==
  /\ last.op = "stopAck"
  /\ left.restart = 0
  /\ ~timer.isTimerRunning
  /\ timer.timerStartTime = NoTime
  /\ storage.hasTimerState
  /\ ~storage.timerState.isRunning
  /\ storage.timerState.startTime = NoTime
  /\ timer.timeRemainingInMilliseconds
       < getPhaseTimeInMilliseconds(settings, timer.currentPhase)

\* C17: with settings in range, whenever no updateSettings is between its
\* merge and its reseed and no start-up read is outstanding, the baseline is
\* at least 0 and at most the full duration of the current phase under the
\* current settings.
C17_BaselineWithinPhase ==
  ( /\ \A i \in 1..Len(tasks) : tasks[i].kind # "updateSettings"
    /\ loads = <<>> )
  => /\ timer.timeRemainingInMilliseconds >= 0
     /\ timer.timeRemainingInMilliseconds
          <= getPhaseTimeInMilliseconds(settings, timer.currentPhase)

\* no handler is under way and the snapshot getState() would return has
\* more time remaining than the phase is long
C17_SnapshotAboveTotal ==
  /\ tasks = <<>>
  /\ loads = <<>>
  /\ timer.isTimerRunning
  /\ now > timer.timerStartTime
  /\ LET timerState == getState(timer, settings, now)
     IN timerState.timeRemaining > timerState.totalTime

\* C18: the completed count is set to 0 by reset and lowered by nothing else;
\* complete() adds exactly 1 to it when the phase it leaves is Work and
\* leaves it as it is when that phase is a break; start, stop,
\* updateSettings, getState and the ticks leave it as it is.  (A restart of
\* the worker rebuilds the clock and its reads restore it: these are not
\* operations on the count.)
C18_CompletedCountSteps ==
  [][ CASE last'.op \in {"restart", "loadSettings", "loadTimerState"} -> TRUE
        [] last'.op = "reset" ->
             timer'.completedPomodoros =
               IF timer.isTimerRunning THEN timer.completedPomodoros ELSE 0
        [] last'.op = "resetSync" -> timer'.completedPomodoros = 0
        [] last'.op = "completeSync" ->
             timer'.completedPomodoros =
               timer.completedPomodoros
                 + (IF timer.currentPhase = "work" THEN 1 ELSE 0)
        [] OTHER -> timer'.completedPomodoros = timer.completedPomodoros ]_vars

\* a break has been completed after a Work phase: the count is still 1
C18_BreakCompleted ==
  /\ last.op = "completeSync"
  /\ timer.currentPhase = "work"
  /\ timer.completedPomodoros = 1
  /\ InRange(settings)
  /\ left.restart = MaxRestart
  /\ Len(tasks) = 1
  /\ now - StepMs >= 2 * getPhaseTimeInMilliseconds(settings, "work")

\* C19: in every reachable state the settings in memory and the stored
\* settings carry all four fields, each a number; an updateSettings leaves a
\* field its payload does not carry at the value it had.
C19_SettingsComplete ==
  /\ [](/\ DOMAIN settings = Fields
        /\ \A f \in Fields : settings[f] \in Nat
        /\ storage.hasTimerSettings => DOMAIN storage.timerSettings = Fields)
  /\ [][last'.op = "updateSettings" =>
          \A f \in Fields \ DOMAIN last'.snap.request :
             f \in DOMAIN settings' /\ settings'[f] = settings[f]]_vars

\* a partial update was stored and read back by a restarted worker: the
\* fields it set are there, and so are the two it did not set
C19_PartialUpdateLoaded ==
  /\ last.op = "loadSettings"
  /\ ~last.noop
  /\ settings.workTime = 1
  /\ settings.shortBreak = 1
  /\ settings.longBreak = DefaultSettings.longBreak
  /\ settings.longBreakInterval = DefaultSettings.longBreakInterval

\* C20: when complete() emits the completion event, the phase of the clock
\* has not been changed yet: it is still the completed phase the event names.
C20_EventBeforeTransition ==
  [][last'.op = "completeDone" =>
       /\ timer.currentPhase = last'.snap.event.completedPhase
       /\ timer'.currentPhase = last'.snap.event.completedPhase]_vars

\* the event of a completed Work phase is sent with the clock already in the
\* break and the count already raised
C20_EventAfterTransition ==
  /\ last.op = "completeDone"
  /\ last.snap.event.completedPhase = "work"
  /\ last.snap.event.nextPhase = "break"
  /\ last.snap.event.completedPomodoros = 1
  /\ timer.currentPhase = "break"
  /\ storage.timerState.currentPhase = "break"

\* the completions that have made their transition and not yet sent their
\* timerCompleted message
Owed(ts) ==
  Cardinality({i \in 1..Len(ts) : ts[i].kind = "complete" /\ ts[i].pc = "save"})

\* C21: every transition of complete() makes one message due, every
\* timerCompleted message sent settles one that was due, and nothing else
\* makes one due: no transition has two completion events.
C21_OneEventPerTransition ==
  [][ CASE last'.op = "completeSync" -> Owed(tasks') = Owed(tasks) + 1
        [] last'.op = "completeDone" ->
             /\ Owed(tasks) >= 1
             /\ Owed(tasks') = Owed(tasks) - 1
        [] OTHER -> Owed(tasks') <= Owed(tasks) ]_vars

\* two completions were under way at once and both made their transition:
\* one has sent its message, the message of the other is still due
C21_TwoCompletionsUnderWay ==
  /\ last.op = "completeDone"
  /\ Len(tasks) = 1
  /\ tasks[1].kind = "complete"
  /\ Owed(tasks) = 1

\* C22: when the notification or the speech fails in a completion, the
\* failure is swallowed and the transition takes place: the count is
\* updated, the phase advances, the baseline is the full duration of the new
\* phase, and the result is stored.
C22_SinkFailureSwallowed ==
  [][ ( /\ last'.op \in {"completeSync", "completeFailed"}
        /\ (last'.snap.notification # "ok" \/ last'.snap.tts # "ok") )
      => /\ last'.op = "completeSync"
         /\ timer'.completedPomodoros =
              timer.completedPomodoros + (IF timer.currentPhase = "work" THEN 1 ELSE 0)
         /\ timer'.currentPhase =
              nextPhase(timer.currentPhase, timer'.completedPomodoros, settings)
         /\ timer'.timeRemainingInMilliseconds =
              getPhaseTimeInMilliseconds(settings, timer'.currentPhase)
         /\ storage'.hasTimerState
         /\ storage'.timerState = saveTimerState(timer') ]_vars

\* the speech failed and the Work phase was completed all the same
C22_SpeechFailedPhaseAdvanced ==
  /\ last.op = "completeSync"
  /\ last.snap.tts = "throws"
  /\ last.snap.notification = "ok"
  /\ timer.currentPhase = "break"
  /\ timer.completedPomodoros = 1
  /\ storage.timerState.currentPhase = "break"

\* C23: a handler whose storage write is rejected does to the clock in
\* memory what it does when the write succeeds (updateSettings goes on to
\* its reseed), and every write of the timer state that succeeds leaves the
\* stored record equal to the clock in memory.
C23_WriteFailureKeepsMemory ==
  /\ [][ storage.down =>
           CASE last'.op = "start" -> timer' = startSync(timer, now)
             [] last'.op = "stop" -> timer' = stopSync(timer, now)
             [] last'.op = "reset" ->
                  timer' = IF timer.isTimerRunning
                             THEN stopSync(timer, now)
                             ELSE resetSync(timer, settings)
             [] last'.op = "resetSync" -> timer' = resetSync(timer, settings)
             [] last'.op = "completeSync" -> timer' = completeSync(timer, settings)
             [] last'.op = "updateSettingsFailed" ->
                  \* the update has ended here: its reseed must have been made
                  timer' = updateRemaining(timer, settings')
             [] OTHER -> TRUE ]_vars
  /\ [][ (~storage'.down /\ last'.op \in {"start", "stop", "reset", "resetSync",
                                           "completeSync", "tick"}
          /\ ~last'.noop)
         => storage'.timerState = saveTimerState(timer') ]_vars

\* the write of a start was rejected: the clock runs in memory and no timer
\* state is stored
C23_StartNotStored ==
  /\ last.op = "start"
  /\ ~last.noop
  /\ storage.down
  /\ timer.isTimerRunning
  /\ ~storage.hasTimerState

\* C24: when the read of the stored timer state fails at the start of the
\* worker and nothing has been handled yet, the clock is the fresh one: phase
\* Work, not running, count 0, and the full Work duration as its baseline.
C24_LoadFailureFallsBack ==
  ( /\ last.op = "loadTimerStateFailed"
    /\ ghost.firstRead
    /\ ghost.firstTick )
  => /\ timer.currentPhase = "work"
     /\ ~timer.isTimerRunning
     /\ timer.timerStartTime = NoTime
     /\ timer.completedPomodoros = 0
     /\ timer.timeRemainingInMilliseconds = getPhaseTimeInMilliseconds(settings, "work")

\* after the failed read a getState is answered, from the fresh clock
C24_AnsweredAfterFailure ==
  /\ last.op = "getState"
  /\ ghost.firstTick
  /\ ~ghost.firstRead
  /\ loads = <<>>
  /\ storage.timerState.isRunning
  /\ ~last.snap.isRunning
  /\ last.snap.currentPhase = "work"
  /\ last.snap.completedPomodoros = 0
  /\ last.snap.timeRemaining = last.snap.totalTime

\* C25: once the user has cleared the list of blocked websites, and until
\* the user adds a site again, the list is empty in the worker and in storage
\* and no page is redirected, also after the worker was started again and has
\* reloaded the list (stated for the worker at rest: no message of the popup
\* and no read of the start-up is outstanding).
C25_ClearedStaysEmpty ==
  (ghost.cleared /\ inbox = <<>> /\ loads = <<>>) =>
    /\ blockedWebsites = {}
    /\ StoredWebsites(storage) = {}
    /\ (last.op = "tabUpdated" => ~last.snap.redirected)

\* the list was cleared, the worker was started again and has reloaded, and
\* a page of a site of the default list is redirected
C25_RedirectedAfterClear ==
  /\ ghost.cleared
  /\ inbox = <<>>
  /\ loads = <<>>
  /\ left.restart < MaxRestart
  /\ last.op = "tabUpdated"
  /\ last.snap.redirected
  /\ last.snap.hostname = "www.instagram.com"

\* C26: when a start is handled while reset is suspended on its write and
\* reset is acknowledged next, the clock is in Work, paused, with completed
\* count 0 and the full Work duration as baseline, in memory and in storage.
C26_ResetAtomic ==
  [][(last.op = "start" /\ last'.op = "resetAck") =>
       /\ timer'.currentPhase = "work"
       /\ ~timer'.isTimerRunning
       /\ timer'.completedPomodoros = 0
       /\ timer'.timeRemainingInMilliseconds =
            getPhaseTimeInMilliseconds(settings', "work")
       /\ storage'.hasTimerState
       /\ storage'.timerState = saveTimerState(timer')]_vars

\* reset is acknowledged while the handler of a start that came in during
\* reset's write is still suspended: the clock runs, in memory and in storage
C26_StartSuspendedAtResetAck ==
  /\ last.op = "resetAck"
  /\ Len(tasks) = 1
  /\ tasks[1].kind = "start"
  /\ timer.isTimerRunning
  /\ storage.hasTimerState
  /\ storage.timerState.isRunning

\* C27: a completion does not carry the running flag and the start timestamp
\* of the old phase into the new one: when its transition finds a running
\* clock (a start was handled while the completion was suspended; the worker
\* was not restarted), the clock does not enter the new phase running on
\* that timestamp.
C27_NoCarryOver ==
  [][(/\ last'.op = "completeSync"
      /\ left.restart = MaxRestart
      /\ timer.isTimerRunning) =>
       ~(/\ timer'.isTimerRunning
         /\ timer'.timerStartTime = timer.timerStartTime
         /\ timer'.currentPhase # timer.currentPhase
         /\ timer'.timeRemainingInMilliseconds =
              getPhaseTimeInMilliseconds(settings', timer'.currentPhase))]_vars

\* the transition has been made while the handler of a start is suspended:
\* the new phase runs on a timestamp taken before it began
C27_StartSuspendedAtTransition ==
  /\ last.op = "completeSync"
  /\ left.restart = MaxRestart
  /\ \E i \in 1..Len(tasks) : tasks[i].kind = "start"
  /\ timer.isTimerRunning
  /\ timer.timerStartTime # NoTime
  /\ timer.timerStartTime < now
  /\ timer.currentPhase = "break"

\* the completions of the phase ph that are suspended before their transition
Completing(ts, ph) ==
  {i \in 1..Len(ts) : /\ ts[i].kind = "complete"
                      /\ ts[i].pc \in {"stopSave", "stopClear"}
                      /\ ts[i].from = ph}

\* C28: an alarm event handled while a completion of the expired phase is
\* suspended starts no second completion of that phase: the phase advances
\* once.
C28_OneCompletionPerPhase ==
  [][(last'.op = "tick" /\ Completing(tasks, timer.currentPhase) # {}) =>
       /\ Completing(tasks', timer.currentPhase) = Completing(tasks, timer.currentPhase)
       /\ timer' = timer]_vars

\* the phase that expired once has been left twice: a second transition is
\* made while the completion that made the first is still suspended
C28_AdvancedTwice ==
  /\ last.op = "completeSync"
  /\ \E i \in 1..(Len(tasks) - 1) :
       /\ tasks[i].kind = "complete"
       /\ tasks[i].pc = "save"
       /\ tasks[i].from = tasks[Len(tasks)].from
  /\ timer.currentPhase = tasks[Len(tasks)].from

\* C29: a tick on a paused clock, and a tick on a running clock whose
\* remaining time is still positive, change no field of the clock (phase,
\* running flag, baseline, start timestamp, completed count), leave the
\* settings alone and start no completion: no event is owed or sent.
C29_IdleTickChangesNothing ==
  [][(/\ last'.op = "tick"
      /\ \/ ~timer.isTimerRunning
         \/ getState(timer, settings, now).timeRemaining > 0) =>
       /\ timer' = timer
       /\ settings' = settings
       /\ tasks' = tasks
       /\ last'.noop]_vars

\* a tick was handled on a clock that has run for a minute and has time left
C29_TickedWithTimeLeft ==
  /\ last.op = "tick"
  /\ last.noop
  /\ timer.isTimerRunning
  /\ now > timer.timerStartTime
  /\ getState(timer, settings, now).timeRemaining > 0
  /\ getState(timer, settings, now).timeRemaining < timer.timeRemainingInMilliseconds

\* C30: in every state of rest (no handler suspended, the reads of the
\* start-up resolved) a running clock has the recurring alarm registered,
\* also after the worker was started again on a stored running clock.
C30_RunningHasAlarm ==
  (tasks = <<>> /\ loads = <<>> /\ timer.isTimerRunning) => alarm.set

\* the worker was started again on a stored running clock that has time
\* left; before loadTimerState() has resolved it handles an alarm event, finds
\* the fresh clock paused and clears the alarm
C30_AlarmClearedBeforeLoad ==
  /\ last.op = "tick"
  /\ tasks = <<>>
  /\ ~alarm.set
  /\ ~timer.isTimerRunning
  /\ \E k \in 1..Len(loads) :
       /\ loads[k].what = "timerState"
       /\ loads[k].has
       /\ loads[k].value.isRunning
       /\ now - loads[k].value.startTime < loads[k].value.timeRemaining

\* the run has enough time left for the running phase of clock t to run out
CanExpire(t, n) ==
  /\ t.isTimerRunning
  /\ t.timeRemainingInMilliseconds - (n - t.timerStartTime) <= left.steps * StepMs

\* C31: a running Work phase that has the time to run out is completed: the
\* clock comes to be paused in the phase that follows (no stop and no reset
\* being issued, time advancing and ticks being delivered).
C31_RunningPhaseCompletes ==
  (/\ CanExpire(timer, now)
   /\ timer.currentPhase = "work"
   /\ timer.completedPomodoros = 0)
  ~> (/\ ~timer.isTimerRunning
      /\ timer.currentPhase = nextPhase("work", 1, settings))

\* the run is over (no time, no message, no restart left, nothing pending)
\* and the Work phase, long run out, is still running: no tick will come
C31_ExpiredAndStuck ==
  /\ timer.isTimerRunning
  /\ timer.currentPhase = "work"
  /\ getState(timer, settings, now).timeRemaining = 0
  /\ tasks = <<>>
  /\ loads = <<>>
  /\ ~alarm.set
  /\ alarm.pending = 0
  /\ left.steps = 0

\* the step just taken has sent the response of a command
Answer(l) ==
  \/ l.op \in {"startAck", "stopAck", "resetAck", "updateSettingsAck",
               "getState", "unknownAction"}
  \/ l.op \in {"start", "stop"} /\ l.noop

\* the suspended handlers of commands: each has its response still to send
Owing(ts) ==
  Cardinality({i \in 1..Len(ts) :
                 ts[i].kind \in {"start", "stop", "reset", "updateSettings"}})

\* C32: every command handled is answered exactly once: the step that
\* handles the message either sends the response or leaves a suspended
\* handler that has it to send; a handler ends by sending it; and no
\* response is sent otherwise, also while storage or alarm calls fail.
C32_EveryCommandAnswered ==
  [][/\ left'.messages < left.messages =>
          \/ Answer(last') /\ Owing(tasks') = Owing(tasks)
          \/ ~Answer(last') /\ Owing(tasks') = Owing(tasks) + 1
     /\ Owing(tasks') < Owing(tasks) =>
          Answer(last') /\ Owing(tasks') = Owing(tasks) - 1
     /\ (Answer(last') /\ left'.messages = left.messages) =>
          Owing(tasks') = Owing(tasks) - 1]_vars

\* start() has ended on a rejected alarm call: the clock runs, no handler is
\* left and the start command has no response
C32_StartUnanswered ==
  /\ last.op = "startFailed"
  /\ tasks = <<>>
  /\ timer.isTimerRunning
  /\ ~alarm.set

\* C33: the next phase announced by the notification of a completion is the
\* phase the clock enters at the transition, and the nextPhase of the
\* timerCompleted message of that completion is the same phase.
C33_AnnouncedPhaseAgrees ==
  /\ last.op = "completeSync" =>
       phaseNames[timer.currentPhase] = last.snap.announced
  /\ last.op = "completeDone" =>
       phaseNames[last.snap.event.nextPhase] = last.snap.announced

\* a reset was handled while the completion was suspended on its write: the
\* notification announced the short break, the message names the Work phase
C33_MessageNamesOtherPhase ==
  /\ last.op = "completeDone"
  /\ last.snap.announced = "short break"
  /\ last.snap.event.completedPhase = "work"
  /\ last.snap.event.nextPhase = "work"
  /\ last.snap.event.completedPomodoros = 0

====
